---- MODULE Spec2Model ----
(***************************************************************************)
(* MLST sequence-type assignment of Kleborate (kleborate/mlstBLAST.py).    *)
(*                                                                         *)
(* A Python str is a TLA+ string, read character by character with Len,    *)
(* SubSeq and \o.  A Python list is a sequence, a Python dict a sequence   *)
(* of <<key, value>> pairs in insertion order.  A function that can raise  *)
(* returns a record whose field raised names the exception ("" for none).  *)
(* A function of the source is one operator of its name; the steps of its  *)
(* body are operators that take the values computed so far as parameters.  *)
(* Integers are those of TLC: int() of a numeral past 2^31 is out of       *)
(* reach.  The characters of a string are those up to U+00FF: the white    *)
(* space and the decimal digits Python knows past U+00FF are out of reach. *)
(* The module is UTF-8 text.                                             *)
(***************************************************************************)
EXTENDS Integers, Sequences, FiniteSets, TLC

VARIABLES pc, header, rows, hits, call, result

vars == <<pc, header, rows, hits, call, result>>

(***************************************************************************)
(* Bounds of the model.                                                    *)
(***************************************************************************)
MaxRows == 2
MaxHits == 3

(***************************************************************************)
(* Text.                                                                   *)
(***************************************************************************)
Numerals == <<"0", "1", "2", "3", "4", "5", "6", "7", "8", "9">>

\* s[i - 1], a string of one character
Char(s, i) == SubSeq(s, i, i)

Digits == {Numerals[n] : n \in 1..Len(Numerals)}

IsDigit(c) == c \in Digits

DigitValues == [c \in Digits |-> (CHOOSE n \in 1..Len(Numerals) : Numerals[n] = c) - 1]

DigitValue(c) == DigitValues[c]

\* the characters str.rstrip() takes for white space: space, \t, \n, \r, \f,
\* U+000B, U+001C to U+001F, U+0085 and U+00A0
Whitespace == {" ", "\t", "\n", "\r", "\f", "", "", "", "", "", "", " "}

\* the characters int() skips around a numeral: space, \t, \n, \r, \f, U+000B,
\* U+0085 and U+00A0
IntWhitespace == {" ", "\t", "\n", "\r", "\f", "", "", " "}

\* str(n)
RECURSIVE Str(_)
Str(n) ==
    IF n < 0 THEN "-" \o Str(0 - n)
    ELSE IF n < 10 THEN Numerals[n + 1]
    ELSE Str(n \div 10) \o Numerals[(n % 10) + 1]

RECURSIVE LastNonSpace(_, _)
LastNonSpace(s, j) ==
    IF j >= 1 /\ Char(s, j) \in Whitespace THEN LastNonSpace(s, j - 1) ELSE j

\* s.rstrip()
RStrip(s) == SubSeq(s, 1, LastNonSpace(s, Len(s)))

RECURSIVE NumeralStart(_, _)
NumeralStart(s, i) ==
    IF i <= Len(s) /\ Char(s, i) \in IntWhitespace THEN NumeralStart(s, i + 1) ELSE i

RECURSIVE NumeralEnd(_, _)
NumeralEnd(s, j) ==
    IF j >= 1 /\ Char(s, j) \in IntWhitespace THEN NumeralEnd(s, j - 1) ELSE j

\* s without the white space int() skips after the numeral
TrimRight(s) == SubSeq(s, 1, NumeralEnd(s, Len(s)))

\* s without the white space int() skips before the numeral
TrimLeft(s) == SubSeq(s, NumeralStart(s, 1), Len(s))

\* the text int() reads as sign and digits
Trim(s) == TrimLeft(TrimRight(s))

\* a numeral without its sign
Unsigned(t) == IF Len(t) > 0 /\ Char(t, 1) \in {"+", "-"} THEN SubSeq(t, 2, Len(t)) ELSE t

\* decimal digits, single underscores allowed between them
IsDecimal(u) ==
    /\ Len(u) > 0
    /\ IsDigit(Char(u, 1))
    /\ IsDigit(Char(u, Len(u)))
    /\ \A i \in 1..Len(u) : IsDigit(Char(u, i)) \/ Char(u, i) = "_"
    /\ \A i \in 1..(Len(u) - 1) : ~(Char(u, i) = "_" /\ Char(u, i + 1) = "_")

\* int(s) does not raise ValueError: one digit, or white space around, an optional
\* sign, digits
IsNumeral(s) == IsDigit(s) \/ IsDecimal(Unsigned(Trim(s)))

RECURSIVE DigitsValue(_, _, _)
DigitsValue(u, i, n) ==
    IF i > Len(u) THEN n
    ELSE IF Char(u, i) = "_" THEN DigitsValue(u, i + 1, n)
    ELSE DigitsValue(u, i + 1, 10 * n + DigitValue(Char(u, i)))

Signed(t) ==
    IF Char(t, 1) = "-" THEN 0 - DigitsValue(Unsigned(t), 1, 0)
    ELSE DigitsValue(Unsigned(t), 1, 0)

\* int(s), for s with IsNumeral(s)
ToInt(s) == IF IsDigit(s) THEN DigitValue(s) ELSE Signed(Trim(s))

\* sub in s, for a non-empty sub
Contains(s, sub) ==
    \E i \in 1..(Len(s) - Len(sub) + 1) : SubSeq(s, i, i + Len(sub) - 1) = sub

RECURSIVE RemoveStarFrom(_, _)
RemoveStarFrom(s, i) ==
    IF i > Len(s) THEN ""
    ELSE IF Char(s, i) = "*" THEN RemoveStarFrom(s, i + 1)
    ELSE Char(s, i) \o RemoveStarFrom(s, i + 1)

\* s.replace('*', '')
RemoveStar(s) == RemoveStarFrom(s, 1)

\* the end of the run of digits that starts at i; i - 1 when there is none
RECURSIVE DigitsEnd(_, _)
DigitsEnd(s, i) ==
    IF i <= Len(s) /\ IsDigit(Char(s, i)) THEN DigitsEnd(s, i + 1) ELSE i - 1

\* a match of -\d+% starts at i, e being the end of the digits after s[i]
IsTag(s, i, e) == Char(s, i) = "-" /\ e > i /\ e < Len(s) /\ Char(s, e + 1) = "%"

RECURSIVE RemoveTruncationFrom(_, _)
RemoveTruncationFrom(s, i) ==
    IF i > Len(s) THEN ""
    ELSE IF IsTag(s, i, DigitsEnd(s, i + 1))
    THEN RemoveTruncationFrom(s, DigitsEnd(s, i + 1) + 2)
    ELSE Char(s, i) \o RemoveTruncationFrom(s, i + 1)

\* re.sub(r'-\d+%', '', s)
RemoveTruncation(s) == RemoveTruncationFrom(s, 1)

\* i: the place read, start: where the part being read began
RECURSIVE SplitFrom(_, _, _, _)
SplitFrom(s, sep, i, start) ==
    IF i + Len(sep) - 1 > Len(s) THEN <<SubSeq(s, start, Len(s))>>
    ELSE IF SubSeq(s, i, i + Len(sep) - 1) = sep
    THEN <<SubSeq(s, start, i - 1)>> \o SplitFrom(s, sep, i + Len(sep), i + Len(sep))
    ELSE SplitFrom(s, sep, i + 1, start)

\* s.split(sep), for a non-empty sep
Split(s, sep) == SplitFrom(s, sep, 1, 1)

\* sep.join(list)
RECURSIVE Join(_, _)
Join(list, sep) ==
    IF list = <<>> THEN ""
    ELSE IF Len(list) = 1 THEN list[1]
    ELSE list[1] \o sep \o Join(Tail(list), sep)

(***************************************************************************)
(* Python dict: insertion-ordered sequence of <<key, value>>.              *)
(***************************************************************************)
DictHas(d, k) == \E i \in 1..Len(d) : d[i][1] = k

DictGet(d, k) == d[CHOOSE i \in 1..Len(d) : d[i][1] = k][2]

\* a dict that keeps the first value written under a key
DictSetDefault(d, k, v) ==
    IF \E i \in 1..Len(d) : d[i][1] = k THEN d ELSE Append(d, <<k, v>>)

\* d[k] = v
DictSet(d, k, v) ==
    IF DictHas(d, k)
    THEN [i \in 1..Len(d) |-> IF d[i][1] = k THEN <<k, v>> ELSE d[i]]
    ELSE Append(d, <<k, v>>)

(***************************************************************************)
(* Hits.                                                                   *)
(***************************************************************************)
\* srst2 formatted file: locus and allele are components 1 and 2 of the gene ID
Srst2AlleleAndLocus(gene_id_components) ==
    IF Len(gene_id_components) < 3
    THEN [raised |-> "IndexError", allele |-> "", locus |-> ""]
    ELSE [raised |-> "", allele |-> gene_id_components[3], locus |-> gene_id_components[2]]

\* Parses the allele name and locus name from the hit's gene ID.
\* [raised, allele, locus]
get_allele_and_locus(hit) ==
    IF Contains(hit.gene_id, "__")
    THEN Srst2AlleleAndLocus(Split(hit.gene_id, "__"))
    ELSE [raised |-> "", allele |-> hit.gene_id, locus |-> Split(hit.gene_id, "_")[1]]

\* a resolver that also replaces the best allele on an equal score
ScoreBeatsOrTies(score, best) == score >= best

\* hit.score > best_score[locus]: on a tie the hit seen first stays
ScoreBeats(score, best) == score > best

\* an unstable sort: a hit goes in front of the earlier hits of equal score
RECURSIVE InsertByScoreUnstable(_, _)
InsertByScoreUnstable(sorted, hit) ==
    IF sorted = <<>> THEN <<hit>>
    ELSE IF Head(sorted).score > hit.score
         THEN <<Head(sorted)>> \o InsertByScoreUnstable(Tail(sorted), hit)
         ELSE <<hit>> \o sorted

\* sorted(locus_hits, key=score, reverse=True): stable, best to worst
RECURSIVE InsertByScore(_, _)
InsertByScore(sorted, hit) ==
    IF sorted = <<>> THEN <<hit>>
    ELSE IF Head(sorted).score >= hit.score
         THEN <<Head(sorted)>> \o InsertByScore(Tail(sorted), hit)
         ELSE <<hit>> \o sorted

RECURSIVE SortedByScore(_)
SortedByScore(hs) ==
    IF hs = <<>> THEN <<>>
    ELSE InsertByScore(SortedByScore(SubSeq(hs, 1, Len(hs) - 1)), hs[Len(hs)])

\* hits_per_locus[locus].append(hit), hits_per_locus being a defaultdict(list)
AppendHit(hits_per_locus, locus, hit) ==
    IF DictHas(hits_per_locus, locus)
    THEN DictSet(hits_per_locus, locus, Append(DictGet(hits_per_locus, locus), hit))
    ELSE DictSet(hits_per_locus, locus, <<hit>>)

\* hits_per_locus: dict locus -> list of hits, loci in order of first appearance
RECURSIVE GroupByLocus(_, _)
GroupByLocus(hs, d) ==
    IF hs = <<>> THEN d
    ELSE GroupByLocus(Tail(hs), AppendHit(d, get_allele_and_locus(Head(hs)).locus, Head(hs)))

\* best_hit = locus_hits[0]
BestHitOf(locus_hits) == SortedByScore(locus_hits)[1]

\* kept_hits: the best hit of each locus
KeptHits(hits_per_locus) ==
    [i \in 1..Len(hits_per_locus) |-> BestHitOf(hits_per_locus[i][2])]

\* [raised, kept_hits]
keep_only_one_hit_per_locus(hs) ==
    IF \E k \in 1..Len(hs) : get_allele_and_locus(hs[k]).raised # ""
    THEN [raised |-> "IndexError", kept_hits |-> <<>>]
    ELSE [raised |-> "", kept_hits |-> KeptHits(GroupByLocus(hs, <<>>))]

IsInexact(hit) == hit.pcid < 100 \/ hit.alignment_length < hit.ref_length

\* allele += '*' for an inexact match
WithStar(hit, allele) == IF IsInexact(hit) THEN allele \o "*" ELSE allele

\* truncation_check(hit)[0]: truncation_check takes five positional arguments
\* (nucl_seq, strand, ref_start, ref_end, ref_length), so this call raises.
TruncationCallRaises == TRUE

\* best_score[locus] = hit.score; best_allele[locus] = allele.split('_')[1]
StoreBest(acc, locus, score, parts) ==
    IF Len(parts) < 2 THEN [acc EXCEPT !.raised = "IndexError"]
    ELSE [raised |-> "",
          best_score |-> DictSet(acc.best_score, locus, score),
          best_allele |-> DictSet(acc.best_allele, locus, parts[2])]

\* the body of the loop for one hit, al being get_allele_and_locus(hit)
BestAlleleStep(acc, hit, al, check_for_truncation) ==
    IF al.raised # "" THEN [acc EXCEPT !.raised = al.raised]
    ELSE IF check_for_truncation /\ TruncationCallRaises
    THEN [acc EXCEPT !.raised = "TypeError"]
    ELSE IF DictHas(acc.best_score, al.locus)
            /\ ~ScoreBeats(hit.score, DictGet(acc.best_score, al.locus))
    THEN acc
    ELSE StoreBest(acc, al.locus, hit.score, Split(WithStar(hit, al.allele), "_"))

\* the loop over the hits: [raised, best_score, best_allele]
RECURSIVE BestAlleleLoop(_, _, _)
BestAlleleLoop(hs, check_for_truncation, acc) ==
    IF hs = <<>> \/ acc.raised # "" THEN acc
    ELSE BestAlleleLoop(Tail(hs), check_for_truncation,
             BestAlleleStep(acc, Head(hs), get_allele_and_locus(Head(hs)),
                            check_for_truncation))

\* return best_allele, or the exception
BestAlleleOf(loop) ==
    IF loop.raised # "" THEN [raised |-> loop.raised, best_allele |-> <<>>]
    ELSE [raised |-> "", best_allele |-> loop.best_allele]

\* [raised, best_allele]; best_allele: dict locus -> allele call (number only)
get_best_allele_per_locus(hs, check_for_truncation) ==
    BestAlleleOf(BestAlleleLoop(hs, check_for_truncation,
                     [raised |-> "", best_score |-> <<>>, best_allele |-> <<>>]))

(***************************************************************************)
(* ST database.                                                            *)
(***************************************************************************)
\* list.pop(0): the first item and the list without it; IndexError on an empty list
PopFirst(list) ==
    IF list = <<>> THEN [raised |-> "IndexError", item |-> "", list |-> <<>>]
    ELSE [raised |-> "", item |-> Head(list), list |-> Tail(list)]

\* list.pop(): the last item and the list without it; IndexError on an empty list
PopLast(list) ==
    IF list = <<>> THEN [raised |-> "IndexError", item |-> "", list |-> <<>>]
    ELSE [raised |-> "", item |-> list[Len(list)], list |-> SubSeq(list, 1, Len(list) - 1)]

\* the info column is popped only when info_arg is 'yes'
PopInfo(list, info_arg) ==
    IF info_arg = "yes" THEN PopLast(list) ELSE [raised |-> "", item |-> "", list |-> list]

\* a line whose first field is st and whose last pop gave last.  While header is
\* empty the line is taken as the header line, so a header line without locus
\* columns leaves the next line to be read as the header again.
StoreLine(acc, info_arg, st, last) ==
    IF last.raised # "" THEN [acc EXCEPT !.raised = last.raised]
    ELSE IF Len(acc.header) = 0 THEN [acc EXCEPT !.header = last.list]
    ELSE [raised |-> "",
          st_names |-> Append(acc.st_names, st),
          alleles_to_st |-> DictSet(acc.alleles_to_st, Join(last.list, ","), st),
          st_to_info |-> IF info_arg = "yes" THEN DictSet(acc.st_to_info, st, last.item)
                         ELSE acc.st_to_info,
          header |-> acc.header]

\* the body of the loop for one line, first being the pop(0) of its fields
LoadLine(acc, info_arg, first) ==
    IF first.raised # "" THEN [acc EXCEPT !.raised = first.raised]
    ELSE StoreLine(acc, info_arg, first.item, PopInfo(first.list, info_arg))

\* the loop over the lines of the file
RECURSIVE LoadLines(_, _, _)
LoadLines(lines, info_arg, acc) ==
    IF lines = <<>> \/ acc.raised # "" THEN acc
    ELSE LoadLines(Tail(lines), info_arg,
             LoadLine(acc, info_arg, PopFirst(Split(RStrip(Head(lines)), "\t"))))

\* database: the lines of the file as iterating over it gives them, each a string
\* with its line end.  [raised, st_names, alleles_to_st, st_to_info, header]
load_st_database(database, info_arg) ==
    LoadLines(database, info_arg,
        [raised |-> "", st_names |-> <<>>, alleles_to_st |-> <<>>, st_to_info |-> <<>>,
         header |-> <<>>])

(***************************************************************************)
(* Nearest locus variant.                                                  *)
(***************************************************************************)
MinLen(a, b) == IF Len(a) < Len(b) THEN Len(a) ELSE Len(b)

\* map stops at the shorter list; int() is applied to every pair it reads
AllNumerals(a, b) == \A i \in 1..MinLen(a, b) : IsNumeral(a[i]) /\ IsNumeral(b[i])

\* sum(map(lambda x, y: bool(int(x)-int(y)), a, b))
Distance(a, b) == Cardinality({i \in 1..MinLen(a, b) : ToInt(a[i]) # ToInt(b[i])})

\* query[index] = '0' where the item is '-'
DashToZero(query) == [i \in 1..Len(query) |-> IF query[i] = "-" THEN "0" ELSE query[i]]

\* a search that forgets the profiles tying with the closest so far
IsTieNever(d, min_dist) == FALSE

\* d == min_dist
IsTie(d, min_dist) == d = min_dist

\* a profile st of ST id st_id at distance d: appended on a tie, a reset when closer
Closer(acc, st, st_id, d) ==
    IF (IsTie(d, acc.min_dist) \/ d < acc.min_dist) /\ ~IsNumeral(st_id)
    THEN [acc EXCEPT !.raised = "ValueError"]
    ELSE IF IsTie(d, acc.min_dist)
    THEN [raised |-> "",
          closest |-> Append(acc.closest, ToInt(st_id)),
          closest_alleles |-> DictSet(acc.closest_alleles, st_id, st),
          min_dist |-> acc.min_dist]
    ELSE IF d < acc.min_dist
    THEN [raised |-> "",
          closest |-> <<ToInt(st_id)>>,
          closest_alleles |-> DictSet(acc.closest_alleles, st_id, st),
          min_dist |-> d]
    ELSE acc

\* the body of the loop for one profile, split at the commas
ClosestStep(acc, st, st_id, profile, query) ==
    IF ~AllNumerals(profile, query) THEN [acc EXCEPT !.raised = "ValueError"]
    ELSE Closer(acc, st, st_id, Distance(profile, query))

\* the loop over the profiles: closest (list of int), closest_alleles, min_dist
RECURSIVE ClosestLoop(_, _, _, _)
ClosestLoop(sts, i, query, acc) ==
    IF i > Len(sts) \/ acc.raised # "" THEN acc
    ELSE ClosestLoop(sts, i + 1, query,
             ClosestStep(acc, sts[i][1], sts[i][2], Split(sts[i][1], ","), query))

\* the largest instead of the smallest
MaxOf(list) == CHOOSE m \in {list[i] : i \in 1..Len(list)} :
                   \A j \in 1..Len(list) : m >= list[j]

\* min(list) of a non-empty list of integers
MinOf(list) == CHOOSE m \in {list[i] : i \in 1..Len(list)} :
                   \A j \in 1..Len(list) : m <= list[j]

\* annotated_query[index]: truncation tag removed, '0' if missing or inexact
AnnotatedToNumber(item) ==
    IF item = "-" \/ Contains(item, "*") THEN "0" ELSE RemoveTruncation(item)

SearchFailed(exception, min_dist) ==
    [raised |-> exception, closest_st |-> "", min_dist |-> min_dist,
     min_dist_incl_snps |-> 0]

\* distance from the closest ST, including SNPs
RecountAgainst(profile, annotated, closest_st, min_dist) ==
    IF ~AllNumerals(profile, annotated) THEN SearchFailed("ValueError", min_dist)
    ELSE [raised |-> "", closest_st |-> closest_st, min_dist |-> min_dist,
          min_dist_incl_snps |-> Distance(profile, annotated)]

\* closest_alleles is keyed by the ST id as the file writes it and read by
\* str(min(closest)): KeyError when the two differ (an id written '01')
Recount(loop, closest_st, annotated_query) ==
    IF ~DictHas(loop.closest_alleles, closest_st)
    THEN SearchFailed("KeyError", loop.min_dist)
    ELSE RecountAgainst(Split(DictGet(loop.closest_alleles, closest_st), ","),
                        [i \in 1..Len(annotated_query) |->
                            AnnotatedToNumber(annotated_query[i])],
                        closest_st, loop.min_dist)

\* closest_st = str(min(closest)): ValueError from int() in the loop or from min()
\* of an empty list
ClosestOf(loop, annotated_query) ==
    IF loop.raised # "" \/ loop.closest = <<>>
    THEN SearchFailed("ValueError", loop.min_dist)
    ELSE Recount(loop, Str(MinOf(loop.closest)), annotated_query)

\* [raised, closest_st, min_dist, min_dist_incl_snps]
get_closest_locus_variant(query, annotated_query, sts) ==
    ClosestOf(ClosestLoop(sts, 1, DashToZero(query),
                  [raised |-> "", closest |-> <<>>, closest_alleles |-> <<>>,
                   min_dist |-> Len(query)]),
              annotated_query)

(***************************************************************************)
(* mlst_blast.                                                             *)
(***************************************************************************)
\* int(len(header) / 2)
RequiredExactMatches(hdr) == Len(hdr) \div 2

\* a gate that lets one more mismatch through
WithinMaxMissingPlusOne(mismatch, max_missing) == mismatch <= max_missing + 1

\* mismatch_loci_including_snps <= max_missing
WithinMaxMissing(mismatch, max_missing) == mismatch <= max_missing

\* a gate that accepts one exact match fewer
TooFewExactMatchesLessOne(exact_matches, required) == exact_matches < required - 1

\* exact_matches < required_exact_matches
TooFewExactMatches(exact_matches, required) == exact_matches < required

\* a label that always carries the suffix
WithLVAlways(bst, mismatch) ==
    IF bst # "0" THEN bst \o "-" \o Str(mismatch) \o "LV" ELSE bst

\* bst += '-' + str(mismatch_loci_including_snps) + 'LV'
WithLV(bst, mismatch) ==
    IF mismatch > 0 /\ bst # "0"
    THEN bst \o "-" \o Str(mismatch) \o "LV"
    ELSE bst

\* an exception leaves mlst_blast: nothing is returned
Raised(exception, searched) ==
    [raised |-> exception, bst |-> "", best_st_annotated |-> <<>>, info_final |-> "",
     mismatch_loci_including_snps |-> 0, missing_loci |-> 0, exact_matches |-> 0,
     searched |-> searched, min_dist |-> 0]

\* hits = run_blastn(...), reduced unless allow_multiple
HitsToResolve(blast_hits, allow_multiple) ==
    IF ~allow_multiple THEN keep_only_one_hit_per_locus(blast_hits)
    ELSE [raised |-> "", kept_hits |-> blast_hits]

\* the loop over the header: the allele numbers, the annotated calls and the
\* two counts
BestST(hdr, best_allele) ==
    [best_st |->
        [i \in 1..Len(hdr) |->
            IF DictHas(best_allele, hdr[i])
            THEN RemoveTruncation(RemoveStar(DictGet(best_allele, hdr[i])))
            ELSE "-"],
     best_st_annotated |->
        [i \in 1..Len(hdr) |->
            IF DictHas(best_allele, hdr[i]) THEN DictGet(best_allele, hdr[i]) ELSE "-"],
     missing_loci |-> Cardinality({i \in 1..Len(hdr) : ~DictHas(best_allele, hdr[i])}),
     mismatch_loci_including_snps |->
        Cardinality({i \in 1..Len(hdr) :
            \/ ~DictHas(best_allele, hdr[i])
            \/ Contains(DictGet(best_allele, hdr[i]), "*")})]

\* pull info column
InfoFinal(db, info_arg, bst, missing_loci, report_incomplete) ==
    IF info_arg = "yes" /\ DictHas(db.st_to_info, bst)
    THEN IF report_incomplete /\ missing_loci > 0
         THEN DictGet(db.st_to_info, bst) \o " (incomplete)"
         ELSE DictGet(db.st_to_info, bst)
    ELSE ""

\* what mlst_blast returns for the label bst left by the two gates.  The record
\* holds bst, best_st_annotated and info_final, and the locals the properties
\* speak of: the final mismatch_loci_including_snps, missing_loci, exact_matches,
\* whether get_closest_locus_variant was called, and its min_dist.
Returns(db, info_arg, q, bst, mismatch, searched, min_dist, report_incomplete) ==
    [raised |-> "",
     bst |-> WithLV(bst, mismatch),
     best_st_annotated |-> q.best_st_annotated,
     info_final |-> InfoFinal(db, info_arg, bst, q.missing_loci, report_incomplete),
     mismatch_loci_including_snps |-> mismatch,
     missing_loci |-> q.missing_loci,
     exact_matches |-> Len(q.best_st) - mismatch,
     searched |-> searched,
     min_dist |-> min_dist]

\* gate 2: bst = '0' when too few loci are exact matches
ExactMatchGate(exact_matches, required_exact_matches, bst) ==
    IF TooFewExactMatches(exact_matches, required_exact_matches) THEN "0" ELSE bst

\* lines 88-102, for the ST assigned and the mismatch count it left
Finish(db, info_arg, q, assigned, mismatch, searched, min_dist, report_incomplete) ==
    Returns(db, info_arg, q,
            ExactMatchGate(Len(q.best_st) - mismatch, RequiredExactMatches(db.header),
                           assigned),
            mismatch, searched, min_dist, report_incomplete)

\* determine closest ST
Searched(db, info_arg, q, closest, report_incomplete) ==
    IF closest.raised # "" THEN Raised(closest.raised, TRUE)
    ELSE Finish(db, info_arg, q, closest.closest_st, closest.min_dist_incl_snps,
                TRUE, closest.min_dist, report_incomplete)

\* assign ST: gate 1, the exact lookup, the search
AssignST(db, info_arg, q, max_missing, report_incomplete) ==
    IF ~WithinMaxMissing(q.mismatch_loci_including_snps, max_missing)
    THEN Finish(db, info_arg, q, "0", q.mismatch_loci_including_snps, FALSE, 0,
                report_incomplete)
    ELSE IF DictHas(db.alleles_to_st, Join(q.best_st, ","))
    THEN Finish(db, info_arg, q, DictGet(db.alleles_to_st, Join(q.best_st, ",")),
                q.mismatch_loci_including_snps, FALSE, 0, report_incomplete)
    ELSE Searched(db, info_arg, q,
                  get_closest_locus_variant(q.best_st, q.best_st_annotated,
                                            db.alleles_to_st),
                  report_incomplete)

\* the database, the hits to resolve and the best alleles in the order the code
\* computes them: the first exception leaves the function
Resolved(db, info_arg, reduced, best, max_missing, report_incomplete) ==
    IF db.raised # "" THEN Raised(db.raised, FALSE)
    ELSE IF reduced.raised # "" THEN Raised(reduced.raised, FALSE)
    ELSE IF best.raised # "" THEN Raised(best.raised, FALSE)
    ELSE AssignST(db, info_arg, BestST(db.header, best.best_allele), max_missing,
                  report_incomplete)

\* blast_hits: what run_blastn returned for the assembly
mlst_blast(database, info_arg, blast_hits, max_missing, check_for_truncation, report_incomplete, allow_multiple) ==
    Resolved(load_st_database(database, info_arg), info_arg,
             HitsToResolve(blast_hits, allow_multiple),
             get_best_allele_per_locus(HitsToResolve(blast_hits, allow_multiple).kept_hits,
                                       check_for_truncation),
             max_missing, report_incomplete)

(***************************************************************************)
(* Inputs: schemes, profile files, hits.                                   *)
(***************************************************************************)
AllLoci == <<"gapA", "infB", "mdh">>

\* the locus columns of a scheme: one, two or three loci
Headers == {SubSeq(AllLoci, 1, n) : n \in 1..Len(AllLoci)}

\* the allele numbers that profile files hold at the first, the second and the
\* third locus
FileAlleles == <<{"0", "1"}, {"1", "2"}, {"1"}>>

\* the ST ids that profile files hold: 2 is the smaller number, "10" the smaller text
FileSTs == {"2", "10"}

Profiles(hdr) ==
    {p \in [1..Len(hdr) -> UNION {FileAlleles[i] : i \in 1..Len(hdr)}] :
        \A i \in 1..Len(hdr) : p[i] \in FileAlleles[i]}

RowsOf(hdr) == [st : FileSTs, alleles : Profiles(hdr)]

\* the lists of at most n elements of S
SeqsUpTo(S, n) == UNION {[1..k -> S] : k \in 0..n}

\* profile files of at most MaxRows rows; rows may repeat a profile or an ST id
Databases(hdr) == SeqsUpTo(RowsOf(hdr), MaxRows)

\* the info column of a row: the clonal group named after the ST
InfoOf(st) == "CG" \o st

\* a line of the profiles file: tab-separated fields and the line end
Line(fields) == Join(fields, "\t") \o "\n"

\* the lines of the profiles file: the header line and a line for each row
DatabaseFile(hdr, rws, info_arg) ==
    LET label == IF info_arg = "yes" THEN <<"info">> ELSE <<>>
    IN  <<Line(<<"ST">> \o hdr \o label)>> \o
        [i \in 1..Len(rws) |->
            Line(<<rws[i].st>> \o rws[i].alleles \o
                 (IF info_arg = "yes" THEN <<InfoOf(rws[i].st)>> ELSE <<>>))]

\* alignment quality: identical and full length, a SNP, a short alignment
Identical == [pcid |-> 100, alignment_length |-> 3, ref_length |-> 3]

WithSNP == [pcid |-> 99, alignment_length |-> 3, ref_length |-> 3]

Partial == [pcid |-> 100, alignment_length |-> 2, ref_length |-> 3]

Scores == {1, 2}

HighScores == {2}

GeneId(locus, number, format) ==
    IF format = "srst2"
    THEN "0__" \o locus \o "__" \o locus \o "_" \o number
    ELSE locus \o "_" \o number

Hit(locus, number, q, score, format) ==
    [gene_id |-> GeneId(locus, number, format), pcid |-> q.pcid,
     alignment_length |-> q.alignment_length, ref_length |-> q.ref_length,
     score |-> score]

\* hit lists with at most one hit for each locus of the scheme: allele 1 or 2
\* identical, or allele 1 with a SNP
RECURSIVE OneHitPerLocus(_, _)
OneHitPerLocus(hdr, i) ==
    IF i > Len(hdr) THEN {<<>>}
    ELSE {first \o rest :
            first \in {<<>>} \cup
                {<<Hit(hdr[i], c[1], c[2], 2, "plain")>> :
                    c \in {<<"1", Identical>>, <<"2", Identical>>, <<"1", WithSNP>>}},
            rest \in OneHitPerLocus(hdr, i + 1)}

\* what the aligner can report for a locus: allele 1 or 2 in full, or part of allele 1
ReportedHits(locus, scores) ==
    {Hit(locus, c[1], c[2], sc, "plain") :
        c \in {<<"1", Identical>>, <<"2", Identical>>, <<"1", Partial>>}, sc \in scores}

\* any hits of the first two loci, several for a locus, in any order; the hits of
\* the second locus all have the high score
AnyHits ==
    SeqsUpTo(ReportedHits(AllLoci[1], Scores) \cup ReportedHits(AllLoci[2], HighScores),
             MaxHits)

\* allele calls as get_best_allele_per_locus writes them, and the missing locus
AlleleCalls ==
    {"-", "2"} \cup {"1" \o star \o tag : star \in {"", "*"}, tag \in {"", "-70%"}}

NoCall == [op |-> "none"]

NoResult == [raised |-> "none"]

(***************************************************************************)
(* Spec: mlst_blast on one assembly, options at their defaults, profiles   *)
(* file without info column.                                               *)
(***************************************************************************)
Init ==
    /\ pc = "ready"
    /\ header \in Headers
    /\ rows \in Databases(header)
    /\ hits = <<>>
    /\ call = NoCall
    /\ result = NoResult

MlstBlast ==
    /\ pc = "ready"
    /\ \E blast_hits \in OneHitPerLocus(header, 1), max_missing \in 0..Len(header) :
          /\ hits' = blast_hits
          /\ call' = [op |-> "mlst_blast", max_missing |-> max_missing]
          /\ result' = mlst_blast(DatabaseFile(header, rows, "no"), "no",
                                  blast_hits, max_missing, FALSE, FALSE, FALSE)
    /\ pc' = "returned"
    /\ UNCHANGED <<header, rows>>

Next == MlstBlast

Spec == Init /\ [][Next]_vars

(***************************************************************************)
(* SpecRoundTrip: each listed ST looked up by its own profile.             *)
(***************************************************************************)
\* an identical, full-length hit for every allele of the row
HitsOfRow(hdr, row, format) ==
    [i \in 1..Len(hdr) |-> Hit(hdr[i], row.alleles[i], Identical, 2, format)]

LookupRow ==
    /\ pc = "ready"
    /\ \E r \in 1..Len(rows), max_missing \in 0..Len(header), info_arg \in {"yes", "no"},
          format \in {"plain", "srst2"} :
          /\ hits' = HitsOfRow(header, rows[r], format)
          /\ call' = [op |-> "mlst_blast", row |-> r, max_missing |-> max_missing,
                      info_arg |-> info_arg]
          /\ result' = mlst_blast(DatabaseFile(header, rows, info_arg), info_arg,
                                  HitsOfRow(header, rows[r], format), max_missing,
                                  FALSE, FALSE, FALSE)
    /\ pc' = "returned"
    /\ UNCHANGED <<header, rows>>

NextRoundTrip == LookupRow

SpecRoundTrip == Init /\ [][NextRoundTrip]_vars

(***************************************************************************)
(* SpecClosest: get_closest_locus_variant called on its own.               *)
(***************************************************************************)
ClosestVariant ==
    /\ pc = "ready"
    /\ \E annotated_query \in [1..Len(header) -> AlleleCalls] :
          LET query == [i \in 1..Len(header) |->
                           RemoveTruncation(RemoveStar(annotated_query[i]))]
              sts == load_st_database(DatabaseFile(header, rows, "no"), "no").alleles_to_st
          IN  /\ call' = [op |-> "get_closest_locus_variant", query |-> query,
                          annotated_query |-> annotated_query]
              /\ result' = get_closest_locus_variant(query, annotated_query, sts)
    /\ pc' = "returned"
    /\ UNCHANGED <<header, rows, hits>>

NextClosest == ClosestVariant

SpecClosest == Init /\ [][NextClosest]_vars

(***************************************************************************)
(* SpecHits: the hit reducer, the allele resolver, and mlst_blast in both  *)
(* hit modes with every option.                                            *)
(***************************************************************************)
InitHits ==
    /\ pc = "hits"
    /\ header = SubSeq(AllLoci, 1, 2)
    /\ rows = <<[st |-> "10", alleles |-> <<"1", "1">>]>>
    /\ hits \in AnyHits
    /\ call = NoCall
    /\ result = NoResult

KeepOnlyOne ==
    /\ pc = "hits"
    /\ call' = [op |-> "keep_only_one_hit_per_locus"]
    /\ result' = [kept |-> keep_only_one_hit_per_locus(hits).kept_hits]
    /\ pc' = "kept"
    /\ UNCHANGED <<header, rows, hits>>

\* lines 44-47 of mlst_blast in either mode
BestAllelePerLocus ==
    /\ pc = "kept"
    /\ \E check_for_truncation \in BOOLEAN :
          /\ call' = [op |-> "get_best_allele_per_locus",
                      check_for_truncation |-> check_for_truncation]
          /\ result' = [kept |-> result.kept,
                        single |-> get_best_allele_per_locus(result.kept,
                                                             check_for_truncation),
                        multiple |-> get_best_allele_per_locus(hits, check_for_truncation)]
    /\ pc' = "resolved"
    /\ UNCHANGED <<header, rows, hits>>

MlstBlastModes ==
    /\ pc = "resolved"
    /\ \E max_missing \in 0..Len(header), info_arg \in {"yes", "no"},
          report_incomplete \in BOOLEAN :
          /\ call' = [op |-> "mlst_blast", max_missing |-> max_missing,
                      info_arg |-> info_arg,
                      check_for_truncation |-> call.check_for_truncation,
                      report_incomplete |-> report_incomplete]
          /\ result' = [kept |-> result.kept, single |-> result.single,
                        multiple |-> result.multiple,
                        run_single |->
                            mlst_blast(DatabaseFile(header, rows, info_arg), info_arg,
                                       hits, max_missing, call.check_for_truncation,
                                       report_incomplete, FALSE),
                        run_multiple |->
                            mlst_blast(DatabaseFile(header, rows, info_arg), info_arg,
                                       hits, max_missing, call.check_for_truncation,
                                       report_incomplete, TRUE)]
    /\ pc' = "returned"
    /\ UNCHANGED <<header, rows, hits>>

NextHits == KeepOnlyOne \/ BestAllelePerLocus \/ MlstBlastModes

SpecHits == InitHits /\ [][NextHits]_vars

(***************************************************************************)
(* What the properties observe, stated on the inputs.                      *)
(***************************************************************************)
Loci == 1..Len(header)

Returned == pc = "returned" /\ result.raised = ""

\* The hits of Spec and SpecHits are named <locus>_<number>.
IsHitOf(h, locus) == SubSeq(h.gene_id, 1, Len(locus) + 1) = locus \o "_"

LocusOf(h) == CHOOSE locus \in {AllLoci[n] : n \in 1..Len(AllLoci)} : IsHitOf(h, locus)

\* In Spec the aligner reports at most one hit for a locus.
HasHit(i) == \E k \in 1..Len(hits) : IsHitOf(hits[k], header[i])

HitOf(i) == hits[CHOOSE k \in 1..Len(hits) : IsHitOf(hits[k], header[i])]

ExactHit(h) == h.pcid = 100 /\ h.alignment_length = h.ref_length

Missing(i) == ~HasHit(i)

Inexact(i) == HasHit(i) /\ ~ExactHit(HitOf(i))

\* the allele number called at a locus that has a hit
Called(i) == SubSeq(HitOf(i).gene_id, Len(header[i]) + 2, Len(HitOf(i).gene_id))

MissingOrInexact == {i \in Loci : Missing(i) \/ Inexact(i)}

\* the allele numbers called, '-' at a locus without hit
Calls == [i \in Loci |-> IF HasHit(i) THEN Called(i) ELSE "-"]

\* the rows whose profile is the query's allele numbers
RowsMatchingQuery ==
    {r \in 1..Len(rows) : \A i \in Loci : HasHit(i) /\ rows[r].alleles[i] = Called(i)}

LastOf(S) == CHOOSE r \in S : \A q \in S : q <= r

\* the rows the exact lookup holds: a later row with the same profile replaces an earlier
Registered == {r \in 1..Len(rows) : \A q \in 1..Len(rows) :
                  rows[q].alleles = rows[r].alleles => q <= r}

\* calls as the search reads them, markers ignored: 0 for a missing locus
NumbersOf(calls) ==
    [i \in 1..Len(calls) |-> IF calls[i] = "-" THEN 0 ELSE ToInt(calls[i])]

DistanceTo(r, numbers) ==
    Cardinality({i \in Loci : ToInt(rows[r].alleles[i]) # numbers[i]})

\* the rows of S at the least distance from the numbers
NearestAmong(S, numbers) ==
    {r \in S : \A q \in S : DistanceTo(r, numbers) <= DistanceTo(q, numbers)}

Nearest == NearestAmong(Registered, NumbersOf(Calls))

\* the place of a row's profile in the exact lookup: the first row that carries it
KeyPos(r) == CHOOSE q \in 1..Len(rows) :
                 /\ rows[q].alleles = rows[r].alleles
                 /\ \A p \in 1..(q - 1) : rows[p].alleles # rows[r].alleles

\* of the rows S at the least distance, the one the search keeps: the numerically
\* smallest ST id, and of the profiles registered under that id the one latest in
\* the exact lookup
WinnerAmong(S) ==
    CHOOSE r \in S :
        /\ \A q \in S : ToInt(rows[r].st) <= ToInt(rows[q].st)
        /\ \A q \in S : rows[q].st = rows[r].st => KeyPos(q) <= KeyPos(r)

NearestRow == WinnerAmong(Nearest)

\* the loci at which the query is missing, or inexact, or calls an allele number
\* other than the row's
MismatchesWith(r) ==
    {i \in Loci : \/ Missing(i)
                  \/ Inexact(i)
                  \/ ToInt(rows[r].alleles[i]) # ToInt(Called(i))}

(***************************************************************************)
(* C1. When every locus of the header has an exact best allele call and    *)
(* the called allele numbers are a key of the exact lookup, mlst_blast     *)
(* returns the ST id stored under that key, without -nLV suffix, and       *)
(* mismatch_loci_including_snps is 0.                                      *)
(***************************************************************************)
C1_ExactProfileGivesItsST ==
    (pc = "returned" /\ MissingOrInexact = {} /\ RowsMatchingQuery # {})
        => /\ result.raised = ""
           /\ result.bst = rows[LastOf(RowsMatchingQuery)].st
           /\ result.mismatch_loci_including_snps = 0

C1_Witness ==
    /\ Returned /\ Len(header) = 3 /\ Len(rows) = 2
    /\ MissingOrInexact = {} /\ RowsMatchingQuery = {1}
    /\ result.bst = "10"

(***************************************************************************)
(* C2. Gate 1: when more loci are missing or inexact than max_missing, the *)
(* label is "0" and the nearest-variant search is not run, also when the   *)
(* allele numbers match a registered profile or are one locus from one.    *)
(***************************************************************************)
C2_OverMaxMissingGivesZero ==
    (pc = "returned" /\ Cardinality(MissingOrInexact) > call.max_missing)
        => /\ result.raised = ""
           /\ result.bst = "0"
           /\ ~result.searched

C2_Witness ==
    /\ Returned /\ Len(header) = 3
    /\ Cardinality(MissingOrInexact) = 2 /\ call.max_missing = 1
    /\ RowsMatchingQuery # {}
    /\ result.bst = "0"

(***************************************************************************)
(* C3. Gate 2: exact_matches is the locus count less the mismatch count;   *)
(* whenever it is below half the locus count, rounded down, the label is   *)
(* "0", also when the key was found in the exact lookup; no other label    *)
(* is returned with exact_matches below that.                              *)
(***************************************************************************)
C3_TooFewExactMatchesGivesZero ==
    Returned
        => /\ result.exact_matches = Len(header) - result.mismatch_loci_including_snps
           /\ ~result.searched =>
                 result.mismatch_loci_including_snps = Cardinality(MissingOrInexact)
           /\ result.exact_matches < Len(header) \div 2 => result.bst = "0"

C3_Witness ==
    /\ Returned /\ RowsMatchingQuery # {}
    /\ Cardinality(MissingOrInexact) <= call.max_missing
    /\ ~result.searched
    /\ result.exact_matches < Len(header) \div 2
    /\ result.bst = "0"

(***************************************************************************)
(* C4. One locus missing, max_missing >= 1, no exact key match, the search *)
(* succeeds and the exact-match count meets the floor, on a profiles file  *)
(* that holds no allele 0.                                                 *)
(* As stated: the label is "<nearest_ST>-1LV".                             *)
(* As it holds: the label is "<nearest_ST>-<n>LV", n being the number of   *)
(* loci at which the query is missing, or inexact, or calls an allele      *)
(* number other than the nearest ST's; n is at least 1.                    *)
(***************************************************************************)
C4_Case ==
    /\ Returned
    /\ call.max_missing >= 1
    /\ result.searched
    /\ result.exact_matches >= Len(header) \div 2
    /\ Cardinality({i \in Loci : Missing(i)}) = 1

\* the profiles file holds no allele 0, which the search would take for a missing
\* locus
NoAlleleZero == \A r \in 1..Len(rows) : \A i \in Loci : ToInt(rows[r].alleles[i]) # 0

C4_OneMissingIsOneLV ==
    (C4_Case /\ NoAlleleZero) => result.bst = rows[NearestRow].st \o "-1LV"

\* the label and the count for the nearest row r, the query mismatching at n loci
NearestWithCount(r, n) ==
    /\ n >= 1
    /\ result.bst = rows[r].st \o "-" \o Str(n) \o "LV"
    /\ result.mismatch_loci_including_snps = n

C4_OneMissingIsNearestWithCount ==
    (C4_Case /\ NoAlleleZero) =>
        NearestWithCount(NearestRow, Cardinality(MismatchesWith(NearestRow)))

C4_Witness ==
    /\ C4_Case /\ NoAlleleZero /\ Len(header) = 3 /\ Len(rows) = 2
    /\ Cardinality(Nearest) = 2
    /\ rows[1].st # rows[2].st
    /\ Cardinality(MismatchesWith(NearestRow)) = 2
    /\ result.bst = "2-2LV"

(***************************************************************************)
(* C7. No hit for any locus: mlst_blast does not raise, every locus is '-' *)
(* in the annotated list and the label is "0", whatever the locus count,   *)
(* max_missing and database.                                               *)
(***************************************************************************)
C7_NoHitsGivesZero ==
    (pc = "returned" /\ hits = <<>>)
        => /\ result.raised = ""
           /\ result.best_st_annotated = [i \in Loci |-> "-"]
           /\ result.bst = "0"

(***************************************************************************)
(* C5. Round trip: looking up a listed row by its own alleles, all exact.  *)
(* As stated: the result is that row's ST, for every row.                  *)
(* As it holds: the result is the ST of the last row of the file that      *)
(* carries the same profile, with no mismatch and no suffix: the row's own *)
(* ST unless a later row repeats its profile.                              *)
(***************************************************************************)
SameProfileAs(r) == {q \in 1..Len(rows) : rows[q].alleles = rows[r].alleles}

C5_RoundTripEveryRow ==
    pc = "returned"
        => /\ result.raised = ""
           /\ result.bst = rows[call.row].st
           /\ result.mismatch_loci_including_snps = 0

C5_RoundTripLastRowOfProfile ==
    pc = "returned"
        => /\ result.raised = ""
           /\ result.bst = rows[LastOf(SameProfileAs(call.row))].st
           /\ result.mismatch_loci_including_snps = 0
           /\ SameProfileAs(call.row) = {call.row} => result.bst = rows[call.row].st

C5_Witness ==
    /\ Returned /\ Len(rows) = 2 /\ call.row = 1
    /\ rows[2].alleles = rows[1].alleles
    /\ result.bst = rows[2].st

(***************************************************************************)
(* C6. keep_only_one_hit_per_locus keeps, for each locus with a hit, the   *)
(* first hit in input order among those of the highest score, and nothing  *)
(* else.                                                                   *)
(***************************************************************************)
\* the position of the hit to keep for the locus of hits[k]
FirstBest(k) ==
    CHOOSE b \in 1..Len(hits) :
        /\ LocusOf(hits[b]) = LocusOf(hits[k])
        /\ \A j \in 1..Len(hits) :
              LocusOf(hits[j]) = LocusOf(hits[k]) =>
                  \/ hits[j].score < hits[b].score
                  \/ hits[j].score = hits[b].score /\ b <= j

C6_OneBestHitPerLocus ==
    pc \in {"kept", "resolved", "returned"} =>
        LET kept == result.kept
        IN  /\ \A a, b \in 1..Len(kept) : LocusOf(kept[a]) = LocusOf(kept[b]) => a = b
            /\ \A a \in 1..Len(kept) : \E k \in 1..Len(hits) : kept[a] = hits[FirstBest(k)]
            /\ \A k \in 1..Len(hits) : \E a \in 1..Len(kept) : kept[a] = hits[FirstBest(k)]

C6_Witness ==
    /\ pc = "kept" /\ Len(hits) = 3 /\ Len(result.kept) = 1
    /\ hits[1].score = 1 /\ hits[2].score = 2 /\ hits[3].score = 2
    /\ hits[2] # hits[3]
    /\ result.kept[1] = hits[2]

(***************************************************************************)
(* C8. Multi-hit mode does not change the assignment: the resolver gives   *)
(* the same locus -> allele call mapping on the raw hits and on the        *)
(* reduced hits, ties included, and mlst_blast returns the same label,     *)
(* annotated list and info string in both modes.                           *)
(***************************************************************************)
Mapping(d) == {d[i] : i \in 1..Len(d)}

C8_SameCallsInBothModes ==
    /\ pc \in {"resolved", "returned"} =>
          /\ result.single.raised = result.multiple.raised
          /\ Mapping(result.single.best_allele) = Mapping(result.multiple.best_allele)
    /\ pc = "returned" =>
          /\ result.run_single.raised = result.run_multiple.raised
          /\ result.run_single.bst = result.run_multiple.bst
          /\ result.run_single.best_st_annotated = result.run_multiple.best_st_annotated
          /\ result.run_single.info_final = result.run_multiple.info_final

C8_Witness ==
    /\ pc = "returned" /\ result.run_multiple.raised = ""
    /\ Len(hits) = 3
    /\ LocusOf(hits[1]) = LocusOf(hits[2]) /\ LocusOf(hits[2]) # LocusOf(hits[3])
    /\ hits[1].score = hits[2].score
    /\ hits[1].gene_id # hits[2].gene_id
    /\ result.run_multiple.searched
    /\ result.run_multiple.bst = "10-1LV"
    /\ result.run_single.bst = "10-1LV"

(***************************************************************************)
(* C9. get_closest_locus_variant on a non-empty database returns as        *)
(* min_dist the least number of loci at which a registered profile differs *)
(* from the query ('-' read as 0), and as closest ST the numerically       *)
(* smallest ST id among the profiles at that distance.                     *)
(***************************************************************************)
GivenDistance(r) == DistanceTo(r, NumbersOf(call.query))

GivenNearest == NearestAmong(Registered, NumbersOf(call.query))

C9_ClosestIsSmallestSTAtMinimum ==
    (pc = "returned" /\ rows # <<>>)
        => /\ result.raised = ""
           /\ \A r \in GivenNearest : result.min_dist = GivenDistance(r)
           /\ \E r \in GivenNearest : result.closest_st = rows[r].st
           /\ \A r \in GivenNearest : ToInt(result.closest_st) <= ToInt(rows[r].st)

C9_Witness ==
    /\ Returned /\ Len(header) = 3 /\ Len(rows) = 2
    /\ GivenNearest = {1, 2}
    /\ ToInt(rows[2].st) < ToInt(rows[1].st)
    /\ result.min_dist = 1
    /\ result.closest_st = rows[2].st

(***************************************************************************)
(* C10. The recomputed mismatch count is the number of loci at which the   *)
(* query is missing, or inexact, or has an allele number other than the    *)
(* winning ST's; truncation tags do not count.                             *)
(***************************************************************************)
WinningRow == WinnerAmong(GivenNearest)

GivenMissingOrInexact(i) ==
    call.annotated_query[i] = "-" \/ Contains(call.annotated_query[i], "*")

C10_RecountCountsMissingAndInexact ==
    Returned =>
        result.min_dist_incl_snps =
            Cardinality({i \in Loci :
                \/ GivenMissingOrInexact(i)
                \/ ToInt(rows[WinningRow].alleles[i]) # ToInt(call.query[i])})

====
